---------------------------- MODULE Spec2Model ----------------------------
(***************************************************************************)
(* Model of calculateSolutions, the brute force solver of the 24 game      *)
(* (src/unnamed/part_002, the version that takes the target number as a   *)
(* parameter; src/src/main.cpp is the same algorithm with the target as a  *)
(* local constant).                                                        *)
(*                                                                         *)
(* A double is modelled as an exact rational in sign-magnitude form, plus  *)
(* the IEEE-754 special values: signed zero, signed infinity and NaN.      *)
(* Rounding is not modelled: every finite result is exact.                 *)
(*                                                                         *)
(* A std::string built by formatting is modelled by the pieces that were   *)
(* formatted into it (a literal text, a formatted permutation, a formatted *)
(* trace), never by its characters.                                        *)
(***************************************************************************)
EXTENDS Integers, Sequences, FiniteSets, TLC

(***************************************************************************)
(* Bounds of the model.                                                    *)
(***************************************************************************)
\* the inputs of every length up to MaxLen over the values 0..MaxVal are tried
MaxLen == 2
MaxVal == 2
\* width of decltype(input.size()) in the model (the build's is 32 or 64)
SizeBits == 16

(***************************************************************************)
(* Program constants.                                                      *)
(***************************************************************************)
Addition == 0
Subtraction == 1
Multiplication == 2
Division == 3
Operation_Count == 4
\* the literal the final value is compared with
TwentyFour == 24

Operation == {Addition, Subtraction, Multiplication, Division}

SizeModulus == 2 ^ SizeBits
SIZE_MAX == SizeModulus - 1

(***************************************************************************)
(* input_type: double.                                                     *)
(***************************************************************************)
RECURSIVE GCD(_, _)
GCD(a, b) == IF b = 0 THEN a ELSE GCD(b, a % b)

Abs(x) == IF x < 0 THEN -x ELSE x

NaN == [kind |-> "nan", neg |-> FALSE, num |-> 0, den |-> 1]
Infinity(neg) == [kind |-> "inf", neg |-> neg, num |-> 0, den |-> 1]

\* the finite value sn/d (d > 0) in lowest terms; zeroNeg is the sign of a zero
MkFinite(sn, d, zeroNeg) ==
    LET g == GCD(Abs(sn), d)
    IN  [kind |-> "finite",
         neg  |-> IF sn = 0 THEN zeroNeg ELSE sn < 0,
         num  |-> Abs(sn) \div g,
         den  |-> d \div g]

FromInt(n) == MkFinite(n, 1, FALSE)

Signed(v) == IF v.neg THEN -v.num ELSE v.num

IsZero(v) == v.kind = "finite" /\ v.num = 0

Negate(v) == IF v.kind = "nan" THEN v ELSE [v EXCEPT !.neg = ~v.neg]

\* l += r
Add(l, r) ==
    CASE l.kind = "nan" \/ r.kind = "nan" -> NaN
      [] l.kind = "inf" /\ r.kind = "inf" -> IF l.neg = r.neg THEN l ELSE NaN
      [] l.kind = "inf" -> l
      [] r.kind = "inf" -> r
      [] OTHER -> MkFinite(Signed(l) * r.den + Signed(r) * l.den,
                           l.den * r.den, l.neg /\ r.neg)

\* l -= r
Sub(l, r) == Add(l, Negate(r))

\* l *= r
Mul(l, r) ==
    LET neg == l.neg # r.neg
    IN  CASE l.kind = "nan" \/ r.kind = "nan" -> NaN
          [] (l.kind = "inf" /\ IsZero(r)) \/ (IsZero(l) /\ r.kind = "inf") -> NaN
          [] l.kind = "inf" \/ r.kind = "inf" -> Infinity(neg)
          [] OTHER -> MkFinite((IF neg THEN -1 ELSE 1) * l.num * r.num,
                               l.den * r.den, neg)

\* l /= r: a division by zero yields an infinity (or NaN for 0/0), no error
Div(l, r) ==
    LET neg == l.neg # r.neg
    IN  CASE l.kind = "nan" \/ r.kind = "nan" -> NaN
          [] l.kind = "inf" /\ r.kind = "inf" -> NaN
          [] l.kind = "inf" -> Infinity(neg)
          [] r.kind = "inf" -> MkFinite(0, 1, neg)
          [] IsZero(r) -> IF IsZero(l) THEN NaN ELSE Infinity(neg)
          [] OTHER -> MkFinite((IF neg THEN -1 ELSE 1) * l.num * r.den,
                               l.den * r.num, neg)

\* operator== of double: NaN equals nothing, the two zeros are equal
Eq(a, b) ==
    /\ a.kind # "nan"
    /\ b.kind # "nan"
    /\ a.kind = b.kind
    /\ \/ a.kind = "inf" /\ a.neg = b.neg
       \/ a.kind = "finite" /\ a.num = b.num /\ a.den = b.den
                            /\ (a.num = 0 \/ a.neg = b.neg)

\* operator< of double
Less(a, b) ==
    CASE a.kind = "nan" \/ b.kind = "nan" -> FALSE
      [] a.kind = "inf" -> a.neg /\ ~(b.kind = "inf" /\ b.neg)
      [] b.kind = "inf" -> ~b.neg
      [] OTHER -> Signed(a) * b.den < Signed(b) * a.den

IntLess(a, b) == a < b

(***************************************************************************)
(* The lambdas of calculateSolutions.                                      *)
(***************************************************************************)
\* the default branches of the two switches, which throw std::runtime_error
InvalidOperation(o) == o \notin Operation

operationToString(o) ==
    CASE o = Addition -> "+"
      [] o = Subtraction -> "-"
      [] o = Multiplication -> "*"
      [] o = Division -> "/"

applyOperation(l, r, o) ==
    CASE o = Addition -> Add(l, r)
      [] o = Subtraction -> Sub(l, r)
      [] o = Multiplication -> Mul(l, r)
      [] o = Division -> Div(l, r)


(***************************************************************************)
(* Standard library algorithms the function calls.                         *)
(***************************************************************************)
Reverse(a) == [k \in 1..Len(a) |-> a[Len(a) + 1 - k]]

Swap(a, x, y) == [a EXCEPT ![x] = a[y], ![y] = a[x]]

\* a with its elements from position from (1-based) to the end reversed
ReverseFrom(a, from) ==
    [k \in 1..Len(a) |-> IF k < from THEN a[k] ELSE a[Len(a) + from - k]]

Max(S) == CHOOSE x \in S : \A y \in S : y <= x

Range(a) == {a[k] : k \in 1..Len(a)}

\* operator< of the elements of a sequence of int, of a sequence of double
IntLessOn(a) == [x \in Range(a), y \in Range(a) |-> IntLess(x, y)]
LessOn(a) == [x \in Range(a), y \in Range(a) |-> Less(x, y)]

\* a wrong next_permutation: the tail after the pivot is not reversed
next_permutation_unreversed(a, less) ==
    LET n == Len(a)
        pivots == {k \in 1..(n - 1) : less[a[k], a[k + 1]]}
    IN  IF pivots = {}
        THEN [seq |-> Reverse(a), more |-> FALSE]
        ELSE LET k == Max(pivots)
                 l == Max({m \in (k + 1)..n : less[a[k], a[m]]})
             IN  [seq |-> Swap(a, k, l), more |-> TRUE]

\* std::next_permutation: the next sequence in lexicographic order and TRUE,
\* or the first (ascending) one and FALSE when a is the last; less is the
\* comparison of the elements, as a function of two elements
next_permutation(a, less) ==
    LET n == Len(a)
        pivots == {k \in 1..(n - 1) : less[a[k], a[k + 1]]}
    IN  IF pivots = {}
        THEN [seq |-> Reverse(a), more |-> FALSE]
        ELSE LET k == Max(pivots)
                 l == Max({m \in (k + 1)..n : less[a[k], a[m]]})
             IN  [seq |-> ReverseFrom(Swap(a, k, l), k + 1), more |-> TRUE]

\* std::sort, ascending by less: the element at index x goes after every
\* element less than it and after the equivalent ones before it
sort(a, less) ==
    LET n == Len(a)
        pos(x) == 1 + Cardinality({y \in 1..n :
                         less[a[y], a[x]] \/ (y < x /\ ~less[a[x], a[y]])})
    IN  [p \in 1..n |-> a[CHOOSE x \in 1..n : pos(x) = p]]

\* std::vector<T>::max_size(): a length above it makes the constructor and
\* reserve throw std::length_error
max_size == SIZE_MAX \div 2

(***************************************************************************)
(* 1. The operation configurations (lines 77-106).                         *)
(***************************************************************************)
\* input.size() - 1, in the unsigned size type
NumberOfOperations(size) == (size - 1) % SizeModulus

\* static_cast<size_t>(std::pow(Operation_Count, n)): the conversion of a
\* double that the size type cannot hold is undefined, any value may result
PowCast(n) ==
    IF 2 * n < SizeBits THEN {Operation_Count ^ n} ELSE {0, 1, SIZE_MAX}

\* a wrong digit: the remainder of a division by the wrong base
Digit_wrong_base(decimalValueBuffer) == decimalValueBuffer % (Operation_Count + 1)

\* line 89
Digit(decimalValueBuffer) == decimalValueBuffer % Operation_Count

\* the check of line 91, which throws std::runtime_error
InvalidDigit(digit) == digit < 0 \/ digit > Operation_Count - 1

\* the check of line 91 fails for some digit of the loop of lines 87-103
RECURSIVE DigitCheckFails(_)
DigitCheckFails(decimalValueBuffer) ==
    /\ decimalValueBuffer # 0
    /\ \/ InvalidDigit(Digit(decimalValueBuffer))
       \/ DigitCheckFails(decimalValueBuffer \div Operation_Count)

\* a wrong conversion: the digits are written most significant first
RECURSIVE Base4Fill_reversed(_, _, _)
Base4Fill_reversed(perm, decimalValueBuffer, j) ==
    IF decimalValueBuffer = 0 THEN perm
    ELSE Base4Fill_reversed(
             [perm EXCEPT ![Len(perm) - j] = decimalValueBuffer % Operation_Count],
             decimalValueBuffer \div Operation_Count, j + 1)

\* the inner loop of lines 87-103: the base 4 digits of decimalValueBuffer,
\* least significant first, written from position j on
RECURSIVE Base4Fill(_, _, _)
Base4Fill(perm, decimalValueBuffer, j) ==
    IF decimalValueBuffer = 0 THEN perm
    ELSE Base4Fill([perm EXCEPT ![j + 1] = Digit(decimalValueBuffer)],
                   decimalValueBuffer \div Operation_Count, j + 1)

\* the vector of n value-initialised operations, filled with the digits of i
OperationsOf(i, n) == Base4Fill([k \in 1..n |-> Addition], i, 0)

(***************************************************************************)
(* 2. The orders of operation (lines 111-130).                             *)
(***************************************************************************)
InitialOrder(n) == sort([k \in 1..n |-> k - 1], IntLessOn([k \in 1..n |-> k - 1]))

next_permutation_order_unreversed(a) == next_permutation_unreversed(a, IntLessOn(a))

next_permutation_order(a) == next_permutation(a, IntLessOn(a))

(***************************************************************************)
(* 3. The permutations of the input (lines 137, 234).                      *)
(***************************************************************************)
\* the initial sort left out
sort_input_missing(a) == a

sort_input(a) == sort(a, LessOn(a))

next_permutation_input(a) == next_permutation(a, LessOn(a))

(***************************************************************************)
(* The calls that are tried.                                               *)
(***************************************************************************)
Doubles(a) == [k \in 1..Len(a) |-> FromInt(a[k])]

SmallInputs ==
    UNION {[1..n -> {FromInt(v) : v \in 0..MaxVal}] : n \in 0..MaxLen}

\* the sets of the comments of main (Shusen's, Yuhao's), of the spec's scenarios,
\* and sets with a zero, in some order the user may type them in
ExtraInputs ==
    {Doubles(a) : a \in {<<24>>, <<5>>, <<4, 6>>, <<0, 5>>, <<5, 0>>,
                         <<2, 3, 4>>, <<3, 1, 3>>, <<8, 0, 3>>,
                         <<0, 24>>, <<5, 1, 5, 5>>, <<6, 5, 2, 1>>, <<1, 3, 4, 6>>,
                         <<24, 5, 0, 24>>}}

Inputs == SmallInputs \cup ExtraInputs

Targets == {FromInt(TwentyFour), FromInt(2)}

(***************************************************************************)
(* The state of one call of calculateSolutions.                            *)
(***************************************************************************)
VARIABLES
    targetNumber,                     \* parameter
    input,                            \* parameter, permuted in place
    pc,                               \* where the call is
    error,                            \* the exception that left the call
    operation_permutations,           \* line 77
    gen,                              \* the loop variables i and s of line 81
    current_order_of_operations,      \* line 115
    order_of_operation_permutations,  \* line 111 (the lambda's buffer)
    solutions,                        \* line 135
    it,                               \* the iterators of the range-for loops
    input_copy,                       \* line 169
    i,                                \* line 172
    buffer,                           \* line 174
    ss,                               \* line 176
    deletionOffset,                   \* line 178
    cout,                             \* std::cout: blocks written, the last one
    hist                              \* history: what the loops have done so far

vars == <<targetNumber, input, pc, error, operation_permutations, gen,
          current_order_of_operations, order_of_operation_permutations,
          solutions, it, input_copy, i, buffer, ss, deletionOffset, cout, hist>>

generated == <<operation_permutations, gen, current_order_of_operations,
               order_of_operation_permutations>>

evaluation == <<input_copy, i, buffer, ss, deletionOffset>>

NUMBER_OF_OPERATIONS_IN_EXPRESSION == NumberOfOperations(Len(input))

\* the elements the range-for loops are at
operations == operation_permutations[it.operations]
order_of_operations == order_of_operation_permutations[it.order]

NoBlock == [permutation |-> <<>>, trace |-> <<>>, result |-> FromInt(0)]

Init ==
    /\ targetNumber \in Targets
    /\ input \in Inputs
    /\ pc = "entry"
    /\ error = "none"
    /\ operation_permutations = <<>>
    /\ gen = [i |-> 0, s |-> 0]
    /\ current_order_of_operations = <<>>
    /\ order_of_operation_permutations = <<>>
    /\ solutions = <<>>
    /\ it = [operations |-> 1, order |-> 1]
    /\ input_copy = <<>>
    /\ i = 0
    /\ buffer = FromInt(0)
    /\ ss = <<>>
    /\ deletionOffset = 0
    /\ cout = [blocks |-> 0, last |-> NoBlock]
    /\ hist = [given |-> input, visited |-> <<>>, evaluated |-> 0, last |-> <<>>,
               triples |-> <<>>, positions |-> <<>>, reduced |-> {},
               returned |-> <<>>]

\* hist.given is the input as passed, hist.visited the permutations the loop of
\* line 139 has entered, hist.evaluated the number of comparisons of line 206,
\* hist.last the last triple <<number of the permutation, iterator of the
\* operations, iterator of the order>> compared, and hist.triples the triple of
\* each element of solutions, at the same position.  hist.positions is the
\* positions (the values of order at line 187) the evaluation under way has
\* reduced at, hist.reduced the pairs <<order of operations, positions reduced
\* at>> of the evaluations made, and hist.returned what the earlier calls
\* were given and returned.

\* a solution string: its literal text and what was formatted into it
SolutionString(literal, permutation, trace) ==
    [literal |-> literal, permutation |-> permutation, trace |-> trace]

\* std::to_string(input.front() == targetNumber), of a true comparison
to_string_true == "1"

(***************************************************************************)
(* Lines 41-45: the trivial case.                                          *)
(***************************************************************************)
\* a wrong trivial case: the element is not compared with the target
TrivialSolutions_unconditional(front, target) ==
    <<SolutionString(to_string_true, <<>>, <<>>)>>

TrivialSolutions(front, target) ==
    IF Eq(front, target)
    THEN <<SolutionString(to_string_true, <<>>, <<>>)>>
    ELSE <<>>

TrivialCase ==
    /\ pc = "entry"
    /\ Len(input) = 1
    /\ solutions' = TrivialSolutions(input[1], targetNumber)
    /\ pc' = "done"
    /\ UNCHANGED <<targetNumber, input, error, generated, it, evaluation, cout, hist>>

(***************************************************************************)
(* Lines 79-106: the list of operation configurations.                     *)
(***************************************************************************)
BeginOperations ==
    /\ pc = "entry"
    /\ Len(input) # 1
    /\ \E s \in PowCast(NUMBER_OF_OPERATIONS_IN_EXPRESSION) :
           gen' = [i |-> 0, s |-> s]
    /\ pc' = "operations"
    /\ UNCHANGED <<targetNumber, input, error, operation_permutations,
                   current_order_of_operations, order_of_operation_permutations,
                   solutions, it, evaluation, cout, hist>>

\* one iteration of the loop of line 81
NextOperations ==
    /\ pc = "operations"
    /\ gen.i < gen.s
    /\ IF NUMBER_OF_OPERATIONS_IN_EXPRESSION > max_size
       THEN /\ pc' = "threw"
            /\ error' = "length_error"
            /\ UNCHANGED <<operation_permutations, gen>>
       ELSE IF DigitCheckFails(gen.i)
       THEN /\ pc' = "threw"
            /\ error' = "runtime_error"
            /\ UNCHANGED <<operation_permutations, gen>>
       ELSE /\ operation_permutations' =
                   Append(operation_permutations,
                          OperationsOf(gen.i, NUMBER_OF_OPERATIONS_IN_EXPRESSION))
            /\ gen' = [gen EXCEPT !.i = gen.i + 1]
            /\ UNCHANGED <<pc, error>>
    /\ UNCHANGED <<targetNumber, input, current_order_of_operations,
                   order_of_operation_permutations, solutions, it, evaluation,
                   cout, hist>>

(***************************************************************************)
(* Lines 111-130: the list of orders of operation.                         *)
(***************************************************************************)
\* the loop of line 81 is over; lines 113-121
BeginOrders ==
    /\ pc = "operations"
    /\ ~(gen.i < gen.s)
    /\ IF NUMBER_OF_OPERATIONS_IN_EXPRESSION > max_size
       THEN /\ pc' = "threw"
            /\ error' = "length_error"
            /\ UNCHANGED current_order_of_operations
       ELSE /\ current_order_of_operations' =
                   InitialOrder(NUMBER_OF_OPERATIONS_IN_EXPRESSION)
            /\ pc' = "orders"
            /\ UNCHANGED error
    /\ UNCHANGED <<targetNumber, input, operation_permutations, gen,
                   order_of_operation_permutations, solutions, it, evaluation,
                   cout, hist>>

\* one iteration of the do-while of lines 123-127; when it ends, line 137
NextOrder ==
    /\ pc = "orders"
    /\ order_of_operation_permutations' =
           Append(order_of_operation_permutations, current_order_of_operations)
    /\ LET next == next_permutation_order(current_order_of_operations)
       IN  /\ current_order_of_operations' = next.seq
           /\ pc' = IF next.more THEN "orders" ELSE "sort"
    /\ UNCHANGED <<targetNumber, input, error, operation_permutations, gen,
                   solutions, it, evaluation, cout, hist>>

(***************************************************************************)
(* Lines 137-234: the evaluation of every expression.                      *)
(***************************************************************************)
\* line 137, and the entry of the do-while of line 139
SortInput ==
    /\ pc = "sort"
    /\ input' = sort_input(input)
    /\ hist' = [hist EXCEPT !.visited = Append(@, input')]
    /\ it' = [operations |-> 1, order |-> 1]
    /\ pc' = "for_order"
    /\ UNCHANGED <<targetNumber, error, generated, solutions, evaluation, cout>>

\* a wrong copy: the buffer the previous triple left
CopyOfInput_stale(a) == input_copy

\* line 169: auto input_copy = input
CopyOfInput(a) == a

\* lines 145, 169-178: the next order of operations, a fresh copy of the input
BeginTriple ==
    /\ pc = "for_order"
    /\ it.order <= Len(order_of_operation_permutations)
    /\ input_copy' = CopyOfInput(input)
    /\ i' = 0
    /\ ss' = <<>>
    /\ deletionOffset' = 0
    /\ pc' = "reduce"
    /\ UNCHANGED <<targetNumber, input, error, generated, solutions, it, buffer,
                   cout, hist>>

\* a wrong position: the nominal one, as it is
ClampedOrder_unclamped(nominal, size) == nominal

\* lines 182-185: the position reduced, from the nominal one
ClampedOrder(nominal, size) ==
    LET order == IF nominal < 0 THEN 0 ELSE nominal
    IN  IF order >= (size - 1) % SizeModulus THEN (size - 1) % SizeModulus ELSE order

\* a wrong erase: nothing is removed
Erase_missing(a, p) == a

\* line 193: a without the element at position p (1-based)
Erase(a, p) == [k \in 1..(Len(a) - 1) |-> IF k < p THEN a[k] ELSE a[k + 1]]

\* one piece of the trace, lines 187 and 195
TraceFragment(l, o, r, result) ==
    [l |-> l, op |-> operationToString(o), r |-> r, buffer |-> result]

\* lines 182-202: one iteration of the do-while
ReduceStep ==
    /\ pc = "reduce"
    /\ LET order == ClampedOrder(order_of_operations[i + 1] - deletionOffset,
                                 Len(input_copy))
       IN  IF order < 0 \/ order + 2 > Len(input_copy)
           THEN \* input_copy is read out of its bounds: anything may happen
                /\ pc' = "undefined"
                /\ UNCHANGED <<error, evaluation, hist>>
           ELSE IF InvalidOperation(operations[i + 1])
           THEN /\ pc' = "threw"
                /\ error' = "runtime_error"
                /\ UNCHANGED <<evaluation, hist>>
           ELSE LET l == input_copy[order + 1]
                    r == input_copy[order + 2]
                    result == applyOperation(l, r, operations[i + 1])
                    reduced == Erase([input_copy EXCEPT ![order + 1] = result],
                                     order + 2)
                IN  /\ buffer' = result
                    /\ input_copy' = reduced
                    /\ ss' = Append(ss, TraceFragment(l, operations[i + 1], r, reduced))
                    /\ deletionOffset' = deletionOffset + 1
                    /\ i' = i + 1
                    /\ pc' = IF i + 1 < Len(operations) THEN "reduce" ELSE "compare"
                    /\ hist' = [hist EXCEPT !.positions = Append(@, order)]
                    /\ UNCHANGED error
    /\ UNCHANGED <<targetNumber, input, generated, solutions, it, cout>>

\* a wrong comparison: of the magnitude
IsSolution_abs(value, target) ==
    Eq(value, FromInt(TwentyFour)) \/ Eq(Negate(value), FromInt(TwentyFour))

\* line 206 (src/src/main.cpp: line 269)
IsSolution(value, target) == Eq(value, FromInt(TwentyFour))

\* line 212
RecordedSolution(permutation, trace) == SolutionString("blimblam", <<>>, <<>>)

\* a wrong append: at the front
push_front(list, x) == <<x>> \o list

\* line 212: solutions.push_back
push_back(list, x) == Append(list, x)

\* lines 206-214, and the step of the loop of line 145
Compare ==
    /\ pc = "compare"
    /\ LET triple == <<Len(hist.visited), it.operations, it.order>>
           found == IsSolution(input_copy[1], targetNumber)
       IN  /\ IF found
              THEN /\ cout' = [blocks |-> cout.blocks + 1,
                               last |-> [permutation |-> input, trace |-> ss,
                                         result |-> buffer]]
                   /\ solutions' = push_back(solutions, RecordedSolution(input, ss))
              ELSE UNCHANGED <<cout, solutions>>
           /\ hist' = [hist EXCEPT !.evaluated = @ + 1,
                                   !.last = triple,
                                   !.triples = IF found THEN push_back(@, triple) ELSE @,
                                   !.positions = <<>>,
                                   !.reduced = @ \cup {<<order_of_operations,
                                                          hist.positions>>}]
    /\ it' = [it EXCEPT !.order = it.order + 1]
    /\ pc' = "for_order"
    /\ UNCHANGED <<targetNumber, input, error, generated, evaluation>>

\* the loop of line 145 is over: the step of the loop of line 143
EndOrders ==
    /\ pc = "for_order"
    /\ it.order > Len(order_of_operation_permutations)
    /\ it' = [operations |-> it.operations + 1, order |-> 1]
    /\ pc' = IF it.operations + 1 <= Len(operation_permutations)
             THEN "for_order" ELSE "next_permutation"
    /\ UNCHANGED <<targetNumber, input, error, generated, solutions, evaluation,
                   cout, hist>>

\* line 234, and line 236 when there is no next permutation
NextPermutation ==
    /\ pc = "next_permutation"
    /\ LET next == next_permutation_input(input)
       IN  /\ input' = next.seq
           /\ hist' = IF next.more
                      THEN [hist EXCEPT !.visited = Append(@, next.seq)]
                      ELSE hist
           /\ pc' = IF next.more THEN "for_order" ELSE "done"
    /\ it' = [operations |-> 1, order |-> 1]
    /\ UNCHANGED <<targetNumber, error, generated, solutions, evaluation, cout>>

Next ==
    \/ TrivialCase
    \/ BeginOperations
    \/ NextOperations
    \/ BeginOrders
    \/ NextOrder
    \/ SortInput
    \/ BeginTriple
    \/ ReduceStep
    \/ Compare
    \/ EndOrders
    \/ NextPermutation

Spec == Init /\ [][Next]_vars

(***************************************************************************)
(* Notions the properties are stated with.                                 *)
(***************************************************************************)
N == Len(hist.given)

Returned == pc = "done"

\* the lists of operations and of orders have just been generated (line 131),
\* or the call has returned
ListsGenerated == pc \in {"sort", "done"}

RECURSIVE Factorial(_)
Factorial(n) == IF n <= 0 THEN 1 ELSE n * Factorial(n - 1)

\* The values of the fully parenthesized expressions that use each element of
\* a exactly once, in exact arithmetic: two elements at any two positions are
\* combined by an operation, in either order, until one value is left.  An
\* expression that divides by zero has no value.
RECURSIVE ExpressionValues(_)
ExpressionValues(a) ==
    IF Len(a) = 1 THEN {a[1]}
    ELSE LET n == Len(a)
             pairs == {c \in (1..n) \X (1..n) : c[1] # c[2]}
             rest(c) == IF c[1] < c[2] THEN Erase(Erase(a, c[2]), c[1])
                        ELSE Erase(Erase(a, c[1]), c[2])
             values(c) == {applyOperation(a[c[1]], a[c[2]], o) : o \in
                             {o \in Operation : ~(o = Division /\ IsZero(a[c[2]]))}}
         IN  UNION {UNION {ExpressionValues(<<v>> \o rest(c)) : v \in values(c)}
                    : c \in pairs}

\* an expression over the given numbers has the value 24
ExpressionExists == \E v \in ExpressionValues(hist.given) : Eq(v, FromInt(TwentyFour))

(***************************************************************************)
(* C1: completeness of the search.  For every input of 2 to 4 numbers and   *)
(* the target 24: when some fully parenthesized expression that uses each  *)
(* number exactly once has the value 24, the returned list is not empty.   *)
(* The code does not have this property: of the five groupings of four     *)
(* numbers, a op (b op (c op d)) is never evaluated.                      *)
(***************************************************************************)
C1_SearchIsComplete ==
    (Returned /\ N \in 2..4 /\ Eq(targetNumber, FromInt(TwentyFour)) /\ ExpressionExists)
        => solutions # <<>>

(***************************************************************************)
(* C2: for N >= 2 and any target t, a solution is appended for a triple    *)
(* exactly when its final reduced value equals t (one solution per such    *)
(* triple, none for any other).  The code does not have this property:     *)
(* line 206 compares with the literal 24, not with targetNumber.          *)
(***************************************************************************)
C2_OneSolutionPerTripleEqualToTarget ==
    [][pc = "compare" =>
          /\ Eq(input_copy[1], targetNumber) => Len(solutions') = Len(solutions) + 1
          /\ ~Eq(input_copy[1], targetNumber) => solutions' = solutions]_vars

(***************************************************************************)
(* C3: with an empty input the call raises no error and produces no        *)
(* operator assignment, grouping order or evaluation, and returns an empty *)
(* list.  The code does not have this property: input.size() - 1 wraps to  *)
(* the largest size, and a vector of that length cannot be made.           *)
(***************************************************************************)
C3_EmptyInputReturnsEmptyList ==
    N = 0 =>
        /\ error = "none"
        /\ pc # "threw"
        /\ operation_permutations = <<>>
        /\ order_of_operation_permutations = <<>>
        /\ hist.evaluated = 0
        /\ solutions = <<>>

(***************************************************************************)
(* C4: for an input of one element, the call returns exactly one solution  *)
(* when the element equals the target and an empty list otherwise, and     *)
(* returns before any operator assignment or grouping order is generated.  *)
(***************************************************************************)
C4_SingleElement ==
    N = 1 =>
        /\ pc \in {"entry", "done"}
        /\ operation_permutations = <<>>
        /\ order_of_operation_permutations = <<>>
        /\ current_order_of_operations = <<>>
        /\ hist.evaluated = 0
        /\ Returned => Len(solutions) = IF Signed(input[1]) = Signed(targetNumber)
                                        THEN 1 ELSE 0

C4_Witness == N = 1 /\ Returned /\ Len(solutions) = 1

(***************************************************************************)
(* C5: for every N >= 2 the list of operation configurations holds exactly *)
(* 4^(N-1) pairwise distinct sequences, each of length N-1, and the i-th   *)
(* (i from 0) is the base 4 representation of i, least significant digit   *)
(* first, padded with Addition, under 0 -> Addition, 1 -> Subtraction,     *)
(* 2 -> Multiplication, 3 -> Division.                                     *)
(***************************************************************************)
DigitOperation(digit) ==
    CASE digit = 0 -> Addition
      [] digit = 1 -> Subtraction
      [] digit = 2 -> Multiplication
      [] digit = 3 -> Division

LexLess(a, b, less(_, _)) ==
    \E p \in 1..Len(a) :
        /\ \A q \in 1..(p - 1) : a[q] = b[q]
        /\ less(a[p], b[p])

C6_GroupingOrders ==
    (N >= 2 /\ ListsGenerated) =>
        LET k == N - 1
            list == order_of_operation_permutations
        IN  /\ Len(list) = Factorial(k)
            /\ \A x \in 1..Len(list) :
                  /\ Len(list[x]) = k
                  /\ {list[x][j] : j \in 1..k} = 0..(k - 1)
            /\ list[1] = [j \in 1..k |-> j - 1]
            /\ \A x \in 1..(Len(list) - 1) : LexLess(list[x], list[x + 1], IntLess)
            /\ \A x, y \in 1..Len(list) : x # y => list[x] # list[y]
            /\ N = 2 => list = << <<0>> >>

C6_Witness ==
    /\ N = 4
    /\ ListsGenerated
    /\ Len(order_of_operation_permutations) = 6
    /\ order_of_operation_permutations[4] = <<1, 2, 0>>

(***************************************************************************)
(* C7: for every input of N >= 2 values, in any initial order and with any *)
(* repeated values, the loop of line 139 visits every distinct ordering of *)
(* the multiset exactly once (N! over the product of the factorials of the *)
(* multiplicities), starting from the ascending one, and ends with the     *)
(* input in ascending order.                                               *)
(***************************************************************************)
Count(a, v) == Cardinality({k \in 1..Len(a) : a[k] = v})

Orderings(a) ==
    {b \in [1..Len(a) -> Range(a)] : \A v \in Range(a) : Count(b, v) = Count(a, v)}

RECURSIVE MultiplicityFactorials(_, _)
MultiplicityFactorials(a, S) ==
    IF S = {} THEN 1
    ELSE LET v == CHOOSE v \in S : TRUE
         IN  Factorial(Count(a, v)) * MultiplicityFactorials(a, S \ {v})

Ascending(a) == \A k \in 1..(Len(a) - 1) : ~Less(a[k + 1], a[k])

C7_EveryOrderingOnce ==
    /\ (N >= 2 /\ hist.visited # <<>>) => Ascending(hist.visited[1])
    /\ (N >= 2 /\ Returned) =>
        LET visited == hist.visited
        IN  /\ Range(visited) = Orderings(hist.given)
            /\ \A x, y \in 1..Len(visited) : x # y => visited[x] # visited[y]
            /\ Len(visited) * MultiplicityFactorials(hist.given, Range(hist.given))
                  = Factorial(N)
            /\ Ascending(input)
            /\ input \in Orderings(hist.given)

C7_Witness ==
    /\ Returned
    /\ hist.given = Doubles(<<5, 1, 5, 5>>)
    /\ Len(hist.visited) = 4
    /\ input = Doubles(<<1, 5, 5, 5>>)

(***************************************************************************)
(* C8: solutions are appended in the order of the enumeration: the triple  *)
(* of a solution precedes the triple of every later solution in the order  *)
(* (permutation of the input in lexicographic order, then operations in    *)
(* the order of the list, then order of operations in the order of the     *)
(* list), and the comparison of line 206 runs exactly once for each        *)
(* triple: the triples compared so far are exactly those before the one    *)
(* the loops are at.                                                       *)
(***************************************************************************)
TripleLess(a, b) == LexLess(a, b, IntLess)

\* the number of triples up to <<p, o, d>>, in the order of the enumeration
Rank(p, o, d) ==
    ((p - 1) * Len(operation_permutations) + (o - 1))
        * Len(order_of_operation_permutations) + d

C8_EnumerationOrder ==
    N >= 2 =>
        /\ Len(hist.triples) = Len(solutions)
        /\ Returned =>
              /\ \A x \in 1..(Len(hist.triples) - 1) :
                    TripleLess(hist.triples[x], hist.triples[x + 1])
              /\ \A x \in 1..(Len(hist.visited) - 1) :
                    LexLess(hist.visited[x], hist.visited[x + 1], Less)
        /\ hist.evaluated > 0 =>
              hist.evaluated = Rank(hist.last[1], hist.last[2], hist.last[3])
        /\ pc \in {"for_order", "reduce", "compare", "next_permutation"} =>
              hist.evaluated = Rank(Len(hist.visited), it.operations, it.order) - 1
        /\ Returned =>
              hist.evaluated = Len(hist.visited) * Len(operation_permutations)
                                   * Len(order_of_operation_permutations)

C8_Witness ==
    /\ Returned
    /\ N = 4
    /\ Len(solutions) >= 2
    /\ hist.triples[1][1] < hist.triples[Len(hist.triples)][1]
    /\ hist.evaluated = 12 * 64 * 6

(***************************************************************************)
(* C9: each record of the returned list contains the permutation of the    *)
(* input that produced it and the accumulated trace (for every step: the   *)
(* two operands, the operator and the resulting buffer).  The code does    *)
(* not have this property: the permutation and the trace go to std::cout,  *)
(* and the record appended is a fixed text.                                *)
(***************************************************************************)
C9_RecordHoldsPermutationAndTrace ==
    (N >= 2 /\ solutions # <<>>) =>
        LET record == solutions[Len(solutions)]
        IN  /\ record.permutation = cout.last.permutation
            /\ record.trace = cout.last.trace
            /\ Len(record.permutation) = N
            /\ Len(record.trace) = N - 1

(***************************************************************************)
(* C10: a division by zero never aborts the enumeration, and a triple      *)
(* whose evaluation divides by zero at some step is never recorded as a    *)
(* solution, for every input of at most 4 numbers.  The code does not have *)
(* the second property: a finite value divided by the infinity a division  *)
(* by zero left is 0, and the evaluation goes on with it.                  *)
(***************************************************************************)
DividesByZero(trace) ==
    \E k \in 1..Len(trace) : trace[k].op = operationToString(Division) /\ IsZero(trace[k].r)

C10_DivisionByZeroNeverRecorded ==
    /\ N \in 1..4 => (error = "none" /\ pc \notin {"threw", "undefined"})
    /\ cout.blocks > 0 => ~DividesByZero(cout.last.trace)

(***************************************************************************)
(* Two calls of calculateSolutions, one after the other, with the same     *)
(* target.  The caller owns the vector: the first call leaves it sorted    *)
(* (std::next_permutation returns false on the last permutation and leaves *)
(* the first), and the second call is passed the same numbers in any       *)
(* order, the order left included.                                         *)
(***************************************************************************)
TwiceInputs ==
    {Doubles(a) : a \in {<<24>>, <<5>>, <<4, 6>>, <<5, 0>>, <<0, 24>>, <<1, 1>>,
                         <<3, 1, 3>>, <<2, 3, 4>>, <<8, 0, 3>>, <<5, 1, 5, 5>>}}

InitTwice ==
    /\ Init
    /\ input \in TwiceInputs

\* line 264, a second time: every local of the call is constructed anew
CallAgain ==
    /\ pc = "done"
    /\ hist.returned = <<>>
    /\ \E again \in Orderings(hist.given) \cup {input} :
          /\ input' = again
          /\ hist' = [given |-> again, visited |-> <<>>, evaluated |-> 0,
                      last |-> <<>>, triples |-> <<>>, positions |-> <<>>,
                      reduced |-> {},
                      returned |-> <<[given |-> hist.given,
                                      left |-> input,
                                      solutions |-> solutions,
                                      triples |-> hist.triples,
                                      blocks |-> cout.blocks]>>]
    /\ pc' = "entry"
    /\ operation_permutations' = <<>>
    /\ gen' = [i |-> 0, s |-> 0]
    /\ current_order_of_operations' = <<>>
    /\ order_of_operation_permutations' = <<>>
    /\ solutions' = <<>>
    /\ it' = [operations |-> 1, order |-> 1]
    /\ input_copy' = <<>>
    /\ i' = 0
    /\ buffer' = FromInt(0)
    /\ ss' = <<>>
    /\ deletionOffset' = 0
    /\ cout' = [blocks |-> 0, last |-> NoBlock]
    /\ UNCHANGED <<targetNumber, error>>

NextTwice ==
    \/ Next
    \/ CallAgain

SpecTwice == InitTwice /\ [][NextTwice]_vars

(***************************************************************************)
(* C11: two calls with the same target and the same input values return    *)
(* identical solution lists in identical order, also when the second call  *)
(* is passed the input in the order the first call left it in, or in any   *)
(* other order of the same numbers.  The triple that produced each         *)
(* solution and the number of blocks written are the same as well.         *)
(***************************************************************************)
SecondCallReturned == Returned /\ hist.returned # <<>>

C11_SameListTwice ==
    SecondCallReturned =>
        /\ solutions = hist.returned[1].solutions
        /\ hist.triples = hist.returned[1].triples
        /\ cout.blocks = hist.returned[1].blocks

C11_Witness ==
    /\ SecondCallReturned
    /\ hist.given # hist.returned[1].given
    /\ hist.given # hist.returned[1].left
    /\ Len(hist.given) = 3
    /\ Len(solutions) >= 2

(***************************************************************************)
(* C12: in src/src/main.cpp, whose target is 24, an expression whose value *)
(* is -24 is added to the solutions just as one whose value is 24 is, and  *)
(* every other expression is discarded.  The code compares with 24 only    *)
(* (line 269): C12_MinusTwentyFourAdded is the statement as made, which    *)
(* the code does not satisfy, and C12_OnlyTwentyFourAdded the statement    *)
(* that holds: an expression is added exactly when its value is 24, and    *)
(* one whose value is -24 is discarded like any other.                     *)
(***************************************************************************)
TargetOfMain == targetNumber = FromInt(TwentyFour)

\* the last comparison is over and the next evaluation has not begun
Compared ==
    /\ N >= 2
    /\ pc \in {"for_order", "next_permutation", "done"}
    /\ hist.evaluated > 0

\* the expression compared last was added to the solutions
LastAdded ==
    /\ solutions # <<>>
    /\ Len(solutions) = Len(hist.triples)
    /\ hist.triples[Len(hist.triples)] = hist.last

ValueIs(v, n) ==
    /\ v.kind = "finite"
    /\ v.den = 1
    /\ v.num = Abs(n)
    /\ v.neg = (n < 0)

ValidReductions(n) ==
    {a \in [1..(n - 1) -> 0..(n - 2)] : \A k \in 1..(n - 1) : a[k] <= n - 1 - k}

ReductionsMade == {p[2] : p \in hist.reduced}

C13_EveryGroupingEvaluated ==
    (Returned /\ N \in 2..4) => ValidReductions(N) \subseteq ReductionsMade

(***************************************************************************)
(* C14: at every reduction step of every triple, the position used to      *)
(* index the working buffer (the grouping order's element minus the        *)
(* deletion offset, after clamping) is in 0..(length of the buffer - 2),   *)
(* so that buffer[position] and buffer[position + 1] exist and the element *)
(* erased at position + 1 is an element of the buffer.                     *)
(***************************************************************************)
NominalOrder == order_of_operations[i + 1] - deletionOffset

Position == ClampedOrder(NominalOrder, Len(input_copy))

C14_PositionInBuffer ==
    /\ pc # "undefined"
    /\ pc = "reduce" =>
          /\ Position \in 0..(Len(input_copy) - 2)
          /\ Position + 1 \in DOMAIN input_copy
          /\ Position + 2 \in DOMAIN input_copy
    /\ \A k \in 1..Len(hist.positions) : hist.positions[k] \in 0..(N - 1 - k)

\* the second step of a triple whose nominal position is below 0
C14_Witness ==
    /\ pc = "reduce"
    /\ N = 4
    /\ i = 1
    /\ NominalOrder < 0
    /\ Position = 0

(***************************************************************************)
(* C15: during the evaluation of a triple for an input of N >= 2 values,   *)
(* the working buffer holds exactly N - step elements after step           *)
(* reductions, the reduction loop performs exactly N - 1 steps, and        *)
(* exactly one element remains when the final value is compared with the   *)
(* target.                                                                 *)
(***************************************************************************)
C15_BufferShrinksByOne ==
    (N >= 2 /\ pc \in {"reduce", "compare"}) =>
        /\ Len(input_copy) = N - i
        /\ Len(hist.positions) = i
        /\ Len(ss) = i
        /\ deletionOffset = i
        /\ pc = "reduce" => i < N - 1
        /\ pc = "compare" => (i = N - 1 /\ Len(input_copy) = 1)

\* the comparison of a triple of four numbers, after its three reductions
C15_Witness ==
    /\ pc = "compare"
    /\ N = 4
    /\ i = 3
    /\ Len(input_copy) = 1
    /\ Len(hist.positions) = 3

(***************************************************************************)
(* C16: the map from a generated grouping order to the sequence of         *)
(* positions actually reduced at (after the offset subtraction and the     *)
(* clamping) is injective for N <= 3, and for N = 4 at least two distinct  *)
(* grouping orders yield the same sequence of positions.                   *)
(***************************************************************************)
OrdersEvaluated == {p[1] : p \in hist.reduced}

C16_OrdersCollapseFromFour ==
    /\ \A p, q \in hist.reduced : p[1] = q[1] => p[2] = q[2]
    /\ N \in 2..3 => \A p, q \in hist.reduced : p[2] = q[2] => p[1] = q[1]
    /\ Returned /\ N \in 2..4 => OrdersEvaluated = Range(order_of_operation_permutations)
    /\ Returned /\ N = 4 =>
          \E p, q \in hist.reduced : p[1] # q[1] /\ p[2] = q[2]

\* the orders 2,0,1 and 2,1,0 have both been reduced at the positions 2,0,0
C16_Witness ==
    /\ Returned
    /\ N = 4
    /\ <<<<2, 0, 1>>, <<2, 0, 0>>>> \in hist.reduced
    /\ <<<<2, 1, 0>>, <<2, 0, 0>>>> \in hist.reduced
    /\ Cardinality(OrdersEvaluated) = 6
    /\ Cardinality(ReductionsMade) = 5

(***************************************************************************)
(* C17: evaluating a triple changes neither the current permutation of the *)
(* input, nor the list of operator assignments, nor the list of grouping   *)
(* orders: the working buffer is a fresh copy of the current permutation   *)
(* for every triple, the deletion offset and the step index restart at 0,  *)
(* and only the solutions list, by at most one record appended to it by    *)
(* the comparison, differs after the evaluation.                           *)
(***************************************************************************)
TripleBegins == pc = "for_order" /\ pc' = "reduce"

TripleStep == TripleBegins \/ pc = "reduce" \/ pc = "compare"

C17_EvaluationFrame ==
    [][TripleStep =>
          /\ input' = input
          /\ targetNumber' = targetNumber
          /\ operation_permutations' = operation_permutations
          /\ order_of_operation_permutations' = order_of_operation_permutations
          /\ TripleBegins => /\ input_copy' = input
                             /\ i' = 0
                             /\ deletionOffset' = 0
                             /\ ss' = <<>>
          /\ pc # "compare" => solutions' = solutions
          /\ pc = "compare" =>
                \/ solutions' = solutions
                \/ /\ Len(solutions') = Len(solutions) + 1
                   /\ SubSeq(solutions', 1, Len(solutions)) = solutions]_vars

\* a triple begins after another has left its result and a solution
C17_Witness ==
    /\ pc = "reduce"
    /\ i = 0
    /\ N = 3
    /\ hist.evaluated >= 2
    /\ solutions # <<>>
    /\ input_copy = input
    /\ deletionOffset = 0

(***************************************************************************)
(* The call under the assumption that the program keeps running: a step   *)
(* that can be taken is taken eventually.                                  *)
(***************************************************************************)
FairInputs ==
    SmallInputs \cup {Doubles(a) : a \in {<<24>>, <<3, 1, 3>>, <<8, 0, 3>>, <<5, 1, 5, 5>>}}

InitFair ==
    /\ Init
    /\ input \in FairInputs

SpecFair == InitFair /\ [][Next]_vars /\ WF_vars(Next)

(***************************************************************************)
(* C18: for every input of N >= 1 values no internal-invariant error is    *)
(* ever raised: the check of the base-4 digits in the generator of the     *)
(* operator assignments never fails, and the default (invalid operation)   *)
(* branches of operationToString and applyOperation are never reached, so  *)
(* that the enumeration always runs to completion and returns its list.    *)
(***************************************************************************)
NoErrorRaised ==
    /\ error = "none"
    /\ pc \notin {"threw", "undefined"}
    /\ pc = "operations" => ~DigitCheckFails(gen.i)
    /\ pc = "reduce" => ~InvalidOperation(operations[i + 1])

C18_NoInternalErrorAndReturns ==
    /\ [](N >= 1 => NoErrorRaised)
    /\ <>(N >= 1 => Returned)

\* the call of four numbers has returned, every list generated and every
\* triple of every permutation evaluated
C18_Witness ==
    /\ Returned
    /\ N = 4
    /\ error = "none"
    /\ Len(operation_permutations) = 64
    /\ hist.evaluated = 64 * 6 * Len(hist.visited)

=============================================================================
